---- MODULE Spec2Model ----
(***************************************************************************)
(* Model of src/lib.rs: the RpcClientExt trait implemented for RpcClient.  *)
(* Two estimation entry points (local replay of an unsigned transaction,   *)
(* remote simulation of a message) and two optimize entry points that      *)
(* splice a ComputeBudget set_compute_unit_limit instruction into the      *)
(* caller's message.                                                       *)
(*                                                                         *)
(* Integers are scaled: a u32 is U32Bits wide and a u64 twice that, so the *)
(* saturation and try_from boundaries of the code are reachable by the     *)
(* model checker.  Indices stored in instructions are 0-based as in the    *)
(* Rust code; TLA+ sequences are 1-based.                                  *)
(***************************************************************************)
EXTENDS Integers, Sequences, FiniteSets, TLC

\* ---------------------------------------------------------------- bounds
\* Width of the model's u32 (the code's is 32).
U32Bits == 12
\* Successful optimize calls after which no further optimize call is made.
MaxOptimize == 2

\* ------------------------------------------------------ program constants
\* lib.rs:204  optimal_cu.saturating_add(150)
FIXED_MARGIN == 150
\* lib.rs:147  optimal_cu.saturating_div(100) * 20
PERCENT_DIV == 100
PERCENT_MUL == 20

U32_MAX == 2^U32Bits - 1
U64_MAX == 2^(2 * U32Bits) - 1

\* ------------------------------------------------------- Rust arithmetic
saturating_add(a, b) ==
    IF a + b > U32_MAX THEN U32_MAX ELSE a + b

saturating_div(a, b) ==
    a \div b

\* u32 `*`: wraps in a release build.  Its only use multiplies a value of at
\* most U32_MAX / 100 by 20, which never reaches the modulus.
wrapping_mul(a, b) ==
    (a * b) % (U32_MAX + 1)

\* ------------------------------------------------------------- results
Ok(v) ==
    [tag |-> "Ok", value |-> v, kind |-> "-"]

Err(k) ==
    [tag |-> "Err", value |-> 0, kind |-> k]

\* A panic unwinds out of the call: nothing is returned.
Panic(k) ==
    [tag |-> "Panic", value |-> 0, kind |-> k]

NoCall ==
    [tag |-> "-", value |-> 0, kind |-> "-"]

\* u32::try_from(u64)
u32_try_from(v) ==
    IF v <= U32_MAX THEN Ok(v) ELSE Err("TryFromIntError")

\* Option<u64>
None ==
    [some |-> FALSE, v |-> 0]

Some(x) ==
    [some |-> TRUE, v |-> x]

\* ------------------------------------------------------------- messages
compute_budget_id ==
    "ComputeBudget111111111111111111111111111111"

\* ComputeBudgetInstruction::set_compute_unit_limit(units): an instruction of
\* the compute-budget program with no account metas.
set_compute_unit_limit(units) ==
    [program_id |-> compute_budget_id,
     accounts |-> <<>>,
     data |-> [tag |-> "SetComputeUnitLimit", units |-> units]]

\* A 1-based index where the code's is 0-based.
position_one_based(keys, key) ==
    CHOOSE i \in 1..Len(keys) :
        /\ keys[i] = key
        /\ \A j \in 1..(i - 1) : keys[j] # key

\* position(keys, key): index of the FIRST key equal to `key`, as u8.
position(keys, key) ==
    LET first == CHOOSE i \in 1..Len(keys) :
                     /\ keys[i] = key
                     /\ \A j \in 1..(i - 1) : keys[j] # key
    IN  (first - 1) % 2^8

\* Message::compile_instruction(&self, ix), against self.account_keys.
compile_instruction(account_keys, ix) ==
    [program_id_index |-> position(account_keys, ix.program_id),
     accounts |-> [i \in 1..Len(ix.accounts) |-> position(account_keys, ix.accounts[i])],
     data |-> ix.data]

\* Vec::push
push(v, x) ==
    Append(v, x)

\* The instruction pushed at the end instead of inserted at the front.
insert_last(v, x) ==
    Append(v, x)

\* Vec::insert(0, x)
insert0(v, x) ==
    <<x>> \o v

\* ------------------------------------------------- estimation entry points
\* What the collaborators answer during one estimate_compute_units_unsigned_tx:
\* get_account for every key, try_from_legacy_transaction, process_message.
LocalEnv(accounts_ok, sanitize_ok, exec_ok, used_cu) ==
    [accounts_ok |-> accounts_ok, sanitize_ok |-> sanitize_ok,
     exec_ok |-> exec_ok, used_cu |-> used_cu]

\* lib.rs:50-109.  `sanitized` is built first and unwrapped only at the call of
\* process_message; every get_account is unwrapped in the loop before that.
\* process_message's Result (result_msg) is bound and never read.
estimate_compute_units_unsigned_tx(env) ==
    LET result_msg == IF env.exec_ok THEN Ok(0) ELSE Err("TransactionError")
    IN  IF ~env.accounts_ok THEN Panic("get_account.unwrap")
        ELSE IF ~env.sanitize_ok THEN Panic("sanitized.unwrap")
        ELSE Ok(env.used_cu)

\* What the remote node and the signers answer during one
\* estimate_compute_units_msg: get_latest_blockhash, Transaction::sign,
\* simulate_transaction_with_config and its value.units_consumed.
RemoteEnv(blockhash_ok, sign_ok, simulate_ok, units_consumed) ==
    [blockhash_ok |-> blockhash_ok, sign_ok |-> sign_ok,
     simulate_ok |-> simulate_ok, units_consumed |-> units_consumed]

\* The zero check of lib.rs:130-134 left out.
estimate_compute_units_msg_no_zero_check(rpc) ==
    IF ~rpc.blockhash_ok THEN Err("ClientError")
    ELSE IF ~rpc.sign_ok THEN Panic("Transaction::sign")
    ELSE IF ~rpc.simulate_ok THEN Err("ClientError")
    ELSE IF ~rpc.units_consumed.some THEN Err("ComputeUnitsError")
    ELSE Ok(rpc.units_consumed.v)

\* units_consumed.unwrap_or_default() in place of ok_or(ComputeUnitsError)?.
estimate_compute_units_msg_unwrap_or_default(rpc) ==
    LET consumed_cu == IF rpc.units_consumed.some THEN rpc.units_consumed.v ELSE 0
    IN  IF ~rpc.blockhash_ok THEN Err("ClientError")
        ELSE IF ~rpc.sign_ok THEN Panic("Transaction::sign")
        ELSE IF ~rpc.simulate_ok THEN Err("ClientError")
        ELSE IF consumed_cu = 0 THEN Err("RpcError")
        ELSE Ok(consumed_cu)

\* lib.rs:111-137.  Transaction::sign panics when the signers do not cover the
\* message; `?` on the two RPC calls returns the client's error.
estimate_compute_units_msg(rpc) ==
    IF ~rpc.blockhash_ok THEN Err("ClientError")
    ELSE IF ~rpc.sign_ok THEN Panic("Transaction::sign")
    ELSE IF ~rpc.simulate_ok THEN Err("ClientError")
    ELSE IF ~rpc.units_consumed.some THEN Err("ComputeUnitsError")
    ELSE IF rpc.units_consumed.v = 0 THEN Err("RpcError")
    ELSE Ok(rpc.units_consumed.v)

\* --------------------------------------------------- optimize entry points
Message(account_keys, instructions) ==
    [account_keys |-> account_keys, instructions |-> instructions]

Outcome(ret, message) ==
    [ret |-> ret, message |-> message]

\* lib.rs:139-158
optimize_compute_units_unsigned_tx(message, env) ==
    LET estimate == estimate_compute_units_unsigned_tx(env)
        converted == u32_try_from(estimate.value)
        optimal_cu == converted.value
        optimize_ix == set_compute_unit_limit(
            saturating_add(optimal_cu,
                           wrapping_mul(saturating_div(optimal_cu, PERCENT_DIV), PERCENT_MUL)))
        keys == push(message.account_keys, compute_budget_id)
        compiled_ix == compile_instruction(keys, optimize_ix)
    IN  IF estimate.tag # "Ok" THEN Outcome(estimate, message)
        ELSE IF converted.tag # "Ok" THEN Outcome(converted, message)
        ELSE Outcome(Ok(optimal_cu),
                     Message(keys, insert0(message.instructions, compiled_ix)))

\* The budget-program key pushed before the estimate is asked for, so that a
\* failed estimate returns after the message was touched.
optimize_compute_units_msg_push_first(message, rpc) ==
    LET estimate == estimate_compute_units_msg(rpc)
        converted == u32_try_from(estimate.value)
        optimal_cu == converted.value
        optimize_ix == set_compute_unit_limit(saturating_add(optimal_cu, FIXED_MARGIN))
        keys == push(message.account_keys, compute_budget_id)
        compiled_ix == compile_instruction(keys, optimize_ix)
        touched == Message(keys, message.instructions)
    IN  IF estimate.tag # "Ok" THEN Outcome(estimate, touched)
        ELSE IF converted.tag # "Ok" THEN Outcome(converted, touched)
        ELSE Outcome(Ok(optimal_cu),
                     Message(keys, insert0(message.instructions, compiled_ix)))

\* lib.rs:197-211
optimize_compute_units_msg(message, rpc) ==
    LET estimate == estimate_compute_units_msg(rpc)
        converted == u32_try_from(estimate.value)
        optimal_cu == converted.value
        optimize_ix == set_compute_unit_limit(saturating_add(optimal_cu, FIXED_MARGIN))
        keys == push(message.account_keys, compute_budget_id)
        compiled_ix == compile_instruction(keys, optimize_ix)
    IN  IF estimate.tag # "Ok" THEN Outcome(estimate, message)
        ELSE IF converted.tag # "Ok" THEN Outcome(converted, message)
        ELSE Outcome(Ok(optimal_cu),
                     Message(keys, insert0(message.instructions, compiled_ix)))

\* ------------------------------------------------------------ inputs
\* Unit counts a replay or a simulation may report (u64).
Units ==
    {0, 1, PERCENT_DIV - 1, PERCENT_DIV, 1200,
     U32_MAX - FIXED_MARGIN, U32_MAX - FIXED_MARGIN + 1, U32_MAX - 10, U32_MAX,
     U32_MAX + 1, U64_MAX}

\* A failed step ends the call, so the answers of the later steps are never
\* asked for: they are fixed rather than enumerated.
LocalEnvs ==
    {LocalEnv(FALSE, TRUE, TRUE, 0), LocalEnv(TRUE, FALSE, TRUE, 0)}
    \cup {LocalEnv(TRUE, TRUE, ok, u) : ok \in BOOLEAN, u \in Units}

RemoteEnvs ==
    {RemoteEnv(FALSE, TRUE, TRUE, None), RemoteEnv(TRUE, FALSE, TRUE, None),
     RemoteEnv(TRUE, TRUE, FALSE, None), RemoteEnv(TRUE, TRUE, TRUE, None)}
    \cup {RemoteEnv(TRUE, TRUE, TRUE, Some(u)) : u \in Units}

Compiled(program_id_index, accounts, tag) ==
    [program_id_index |-> program_id_index, accounts |-> accounts,
     data |-> [tag |-> tag, units |-> 0]]

\* Messages a caller starts from, as Message::new builds them (signers first,
\* program ids last): a transfer (the doc example and the test), a transfer
\* preceded by the caller's own compute-budget instruction, and a message of
\* the fee payer alone.
InitialMessages ==
    {Message(<<"payer", "dest", "system_program">>,
             <<Compiled(2, <<0, 1>>, "Transfer")>>),
     Message(<<"payer", "dest", "system_program", compute_budget_id>>,
             <<Compiled(3, <<>>, "SetComputeUnitPrice"),
               Compiled(2, <<0, 1>>, "Transfer")>>),
     Message(<<"payer">>, <<>>)}

\* ------------------------------------------------------------- state
\* account_keys, instructions: the caller's Message (transaction.message for
\* the unsigned_tx entry points).  last: the entry point called last, what its
\* collaborators answered, the message it was given and what it returned.
\* optimized: the number of optimize calls that returned Ok.
VARIABLES account_keys, instructions, last, optimized

vars == <<account_keys, instructions, last, optimized>>

Call(fn, env, before, ret) ==
    [fn |-> fn, env |-> env, before |-> before, ret |-> ret]

Init ==
    /\ \E m \in InitialMessages :
           /\ account_keys = m.account_keys
           /\ instructions = m.instructions
    /\ last = Call("-", "-", Message(<<>>, <<>>), NoCall)
    /\ optimized = 0

EstimateUnsignedTx ==
    \E env \in LocalEnvs :
        /\ last' = Call("estimate_compute_units_unsigned_tx", env,
                        Message(account_keys, instructions),
                        estimate_compute_units_unsigned_tx(env))
        /\ UNCHANGED <<account_keys, instructions, optimized>>

EstimateMsg ==
    \E rpc \in RemoteEnvs :
        /\ last' = Call("estimate_compute_units_msg", rpc,
                        Message(account_keys, instructions),
                        estimate_compute_units_msg(rpc))
        /\ UNCHANGED <<account_keys, instructions, optimized>>

Apply(fn, env, out) ==
    /\ account_keys' = out.message.account_keys
    /\ instructions' = out.message.instructions
    /\ last' = Call(fn, env, Message(account_keys, instructions), out.ret)
    /\ optimized' = IF out.ret.tag = "Ok" THEN optimized + 1 ELSE optimized

OptimizeUnsignedTx ==
    /\ optimized < MaxOptimize
    /\ \E env \in LocalEnvs :
           Apply("optimize_compute_units_unsigned_tx", env,
                 optimize_compute_units_unsigned_tx(Message(account_keys, instructions), env))

OptimizeMsg ==
    /\ optimized < MaxOptimize
    /\ \E rpc \in RemoteEnvs :
           Apply("optimize_compute_units_msg", rpc,
                 optimize_compute_units_msg(Message(account_keys, instructions), rpc))

Next ==
    \/ EstimateUnsignedTx
    \/ EstimateMsg
    \/ OptimizeUnsignedTx
    \/ OptimizeMsg

Spec ==
    Init /\ [][Next]_vars

\* ===================================================================
\* Properties
\* ===================================================================
OptimizeFns ==
    {"optimize_compute_units_unsigned_tx", "optimize_compute_units_msg"}

LocalFns ==
    {"estimate_compute_units_unsigned_tx", "optimize_compute_units_unsigned_tx"}

RemoteFns ==
    {"estimate_compute_units_msg", "optimize_compute_units_msg"}

\* The last call was an optimize call that returned Ok / did not.
OptimizeSucceeded ==
    last.fn \in OptimizeFns /\ last.ret.tag = "Ok"

OptimizeFailed ==
    last.fn \in OptimizeFns /\ last.ret.tag # "Ok"

\* The last call's replay ran to the end of process_message.
LocalReplayed ==
    last.fn \in LocalFns /\ last.env.accounts_ok /\ last.env.sanitize_ok

\* The last call's simulation request was answered by the remote node.
RemoteAnswered ==
    /\ last.fn \in RemoteFns
    /\ last.env.blockhash_ok /\ last.env.sign_ok /\ last.env.simulate_ok

\* The estimate the last call's estimator was given by its collaborator.
LastEstimate ==
    IF last.fn \in LocalFns THEN last.env.used_cu ELSE last.env.units_consumed.v

\* The margin the spec names for the last call's entry point.
LastMargin ==
    IF last.fn \in LocalFns
    THEN (LastEstimate \div PERCENT_DIV) * PERCENT_MUL
    ELSE FIXED_MARGIN

IsLimitInstruction(ix) ==
    ix.data.tag = "SetComputeUnitLimit" /\ ix.accounts = <<>>

\* C1: a successful optimize call appends the budget-program id as the last
\* account key (length + 1) and inserts one limit instruction at position 0
\* (length + 1), every earlier instruction kept as it was and in order; after
\* two successful calls positions 0 and 1 both hold limit instructions, the
\* one at position 1 being the one that was at position 0 before the call.
C1_SpliceShape ==
    /\ OptimizeSucceeded =>
           /\ account_keys = Append(last.before.account_keys, compute_budget_id)
           /\ Len(account_keys) = Len(last.before.account_keys) + 1
           /\ Len(instructions) = Len(last.before.instructions) + 1
           /\ IsLimitInstruction(instructions[1])
           /\ \A i \in 1..Len(last.before.instructions) :
                  instructions[i + 1] = last.before.instructions[i]
    /\ optimized >= 2 =>
           /\ IsLimitInstruction(instructions[1])
           /\ IsLimitInstruction(instructions[2])
    /\ (OptimizeSucceeded /\ optimized >= 2) =>
           /\ IsLimitInstruction(last.before.instructions[1])
           /\ instructions[2] = last.before.instructions[1]

C1_Witness ==
    /\ OptimizeSucceeded
    /\ optimized = 2
    /\ Len(last.before.instructions) >= 2
    /\ instructions[1].data.units # instructions[2].data.units

\* C2: the value a successful optimize call returns is the limit carried by
\* the instruction it inserted at position 0.
C2_ReturnsPaddedLimit ==
    OptimizeSucceeded => last.ret.value = instructions[1].data.units

\* C3: an optimize call whose estimate plus margin exceeds u32::MAX fails.
C3_OverflowFails ==
    ( /\ last.fn \in OptimizeFns
      /\ IF last.fn \in LocalFns
         THEN LocalReplayed
         ELSE RemoteAnswered /\ last.env.units_consumed.some /\ LastEstimate # 0
      /\ LastEstimate + LastMargin > U32_MAX )
    => last.ret.tag = "Err"

\* C4: a failed optimize call leaves the account keys and the instructions
\* as they were.
C4_FailureLeavesMessage ==
    OptimizeFailed =>
        /\ account_keys = last.before.account_keys
        /\ instructions = last.before.instructions

C4_Witness ==
    /\ last.fn = "optimize_compute_units_msg"
    /\ RemoteAnswered
    /\ last.env.units_consumed = Some(0)
    /\ last.ret.tag = "Err"
    /\ optimized = 1

\* C5: estimate_compute_units_msg answered units_consumed = Some(0) returns
\* the error it uses for a failed simulation, which is neither the one for a
\* missing field nor the client's transport error, and never Ok.
C5_ZeroUnitsRejected ==
    ( /\ last.fn = "estimate_compute_units_msg"
      /\ RemoteAnswered
      /\ last.env.units_consumed = Some(0) )
    => /\ last.ret = Err("RpcError")
       /\ last.ret.kind \notin {"ComputeUnitsError", "ClientError"}

C5_Witness ==
    /\ last.fn = "estimate_compute_units_msg"
    /\ RemoteAnswered
    /\ last.env.units_consumed = Some(0)
    /\ last.ret.tag = "Err"

\* C6: estimate_compute_units_msg answered without units_consumed returns
\* ComputeUnitsError, never Ok.
C6_MissingUnitsRejected ==
    ( /\ last.fn = "estimate_compute_units_msg"
      /\ RemoteAnswered
      /\ last.env.units_consumed = None )
    => last.ret = Err("ComputeUnitsError")

C6_Witness ==
    /\ last.fn = "estimate_compute_units_msg"
    /\ RemoteAnswered
    /\ last.env.units_consumed = None
    /\ last.ret.tag = "Err"

\* C7: estimate_compute_units_unsigned_tx whose replay failed in
\* process_message returns an error, never Ok.
C7_ExecutionFailureSurfaced ==
    ( /\ last.fn = "estimate_compute_units_unsigned_tx"
      /\ LocalReplayed
      /\ ~last.env.exec_ok )
    => last.ret.tag = "Err"

\* C8: every instruction's program index and account indices are below the
\* number of account keys, in every state.
C8_IndicesInBounds ==
    \A i \in 1..Len(instructions) :
        /\ instructions[i].program_id_index < Len(account_keys)
        /\ \A j \in 1..Len(instructions[i].accounts) :
               instructions[i].accounts[j] < Len(account_keys)

C8_Witness ==
    /\ OptimizeSucceeded
    /\ optimized = 2
    /\ last.fn = "optimize_compute_units_unsigned_tx"
    /\ Len(instructions) = 4

\* C9: after a successful optimize call the instruction at position 0 has the
\* last account key, the one this call appended, as its program.
C9_PointsAtAppendedKey ==
    OptimizeSucceeded =>
        instructions[1].program_id_index = Len(account_keys) - 1

\* C10: the limit a successful optimize call inserts is strictly greater than
\* the estimate.
C10_MarginNonZero ==
    OptimizeSucceeded => instructions[1].data.units > LastEstimate

====
